---------------------------- MODULE Spec2Model ----------------------------
(***************************************************************************)
(* Model of src/app.py: the reference classifier map_ref, the pivot built  *)
(* by main and by to_excel_bytes_with_pivot, and steps 4-7 of main.        *)
(*                                                                         *)
(* A Python str is a sequence of one-character strings.  A label returned  *)
(* by map_ref is a TLA+ string.  The frame df is a sequence of rows, each  *)
(* a function from the frame's columns to cells.  The model starts after   *)
(* step 3 of main (the Value Date filter): df is the filtered frame.       *)
(*                                                                         *)
(* src/app.py line 85 lacks a closing parenthesis, so the file as it       *)
(* stands does not compile; Rule14 models the condition with the           *)
(* parenthesis closed where the line's three calls end.                    *)
(***************************************************************************)
EXTENDS Integers, Sequences, FiniteSets, TLC

VARIABLES df, columns, ref, pivot, warning, excel, pc

vars == <<df, columns, ref, pivot, warning, excel, pc>>

----------------------------------------------------------------------------
(* Bounds of the model.                                                    *)

\* the longest Reference of the classifier runs, in fragments
MaxTokens == 3

\* the most rows of the frame in the pivot runs
MaxRows == 3

----------------------------------------------------------------------------
(* Characters and the str methods map_ref uses.                            *)

Lower == <<"a","b","c","d","e","f","g","h","i","j","k","l","m",
           "n","o","p","q","r","s","t","u","v","w","x","y","z">>

Upper == <<"A","B","C","D","E","F","G","H","I","J","K","L","M",
           "N","O","P","Q","R","S","T","U","V","W","X","Y","Z">>

Digits == {"0","1","2","3","4","5","6","7","8","9"}

Whitespace == {" ", "\t", "\n", "\r", "\f"}

\* one character of str.upper()
UpperChar(c) ==
    IF \E i \in 1..Len(Lower) : Lower[i] = c
    THEN Upper[CHOOSE i \in 1..Len(Lower) : Lower[i] = c]
    ELSE c

\* mutant of upper: the case is left as it is
upper_Identity(t) == t

\* str.upper()
upper(t) == [i \in 1..Len(t) |-> UpperChar(t[i])]

RECURSIVE lstrip(_)
\* the leading whitespace removed
lstrip(t) ==
    IF t # << >> /\ Head(t) \in Whitespace THEN lstrip(Tail(t)) ELSE t

RECURSIVE rstrip(_)
\* the trailing whitespace removed
rstrip(t) ==
    IF t # << >> /\ t[Len(t)] \in Whitespace
    THEN rstrip(SubSeq(t, 1, Len(t) - 1))
    ELSE t

\* str.strip()
strip(t) == rstrip(lstrip(t))

\* w in t
Contains(t, w) ==
    \E i \in 1..(Len(t) - Len(w) + 1) : SubSeq(t, i, i + Len(w) - 1) = w

\* t.startswith(w)
startswith(t, w) ==
    Len(t) >= Len(w) /\ SubSeq(t, 1, Len(w)) = w

\* t.isdigit(), on the characters of the model
isdigit(t) ==
    t # << >> /\ \A i \in 1..Len(t) : t[i] \in Digits

----------------------------------------------------------------------------
(* The string literals of map_ref.                                         *)

PULSES == <<"P","U","L","S","E","S">>
PAYMENT == <<"P","A","Y","M","E","N","T">>
AUD_PULSES == <<"A","U","D","_">> \o PULSES
INR_PULSES == <<"I","N","R","_">> \o PULSES
CAD == <<"C","A","D">>
CANOLA == <<"C","A","N","O","L","A">>
CANADA == <<"C","A","N","A","D","A">>
CAD_SP_CANOLA == CAD \o <<" ">> \o CANOLA
CAD_DASH_CANADA == CAD \o <<"-">> \o CANADA
CAD_DASH_CANOLA == CAD \o <<"-">> \o CANOLA
WHEAT == <<"W","H","E","A","T">>
EUR_COTTON == <<"E","U","R"," ","C","O","T","T","O","N">>
EUR_WHEAT == <<"E","U","R"," ">> \o WHEAT
SGD == <<"S","G","D">>
RB == <<"R","B">>
B == <<"B">>
NJ == <<"N","J">>
NJ_DASH == <<"N","J","-">>
NJ_SP == <<"N","J"," ">>
OILSEEDS == <<"O","I","L","S","E","E","D","S">>

----------------------------------------------------------------------------
(* Cells of the frame.                                                     *)

\* a Reference cell holding a string
Str(t) == [kind |-> "str", text |-> t]

\* a Reference cell holding None
NoneCell == [kind |-> "None"]

\* a Reference cell pandas read as missing
NaNCell == [kind |-> "nan"]

\* str(x)
str(x) ==
    CASE x.kind = "str" -> x.text
      [] x.kind = "None" -> <<"N","o","n","e">>
      [] x.kind = "nan" -> <<"n","a","n">>

\* an Amount cell holding a number
Num(n) == [kind |-> "num", val |-> n]

\* an Amount cell holding text that is no number
TextCell == [kind |-> "text"]

----------------------------------------------------------------------------
(* map_ref: the rules in the order of the code, the first match wins.      *)

\* mutant of Rule7: the PAYMENT clause dropped
Rule7_NoPaymentClause(s) == Contains(s, PULSES)

Rule7(s) == Contains(s, PULSES) /\ ~Contains(s, PAYMENT)

\* mutant of Rule8: SGD only as a prefix
Rule8_Prefix(s) == startswith(s, SGD)

Rule8(s) == Contains(s, SGD)

\* mutant of Rule10: a single digit is not taken as numeric
Rule10_LongerThanOne(s) == isdigit(s) /\ Len(s) > 1

Rule10(s) == isdigit(s) /\ Len(s) > 0

Rule11(s) == startswith(s, RB)

\* mutant of Rule12: the whole string compared with "B"
Rule12_WholeString(s) == s = B

Rule12(s) == startswith(s, B)

Rule13(s) == Contains(s, PAYMENT)

Rule14(s) == startswith(s, NJ) \/ startswith(s, NJ_DASH) \/ startswith(s, NJ_SP)

\* mutant of DefaultLabel: a label for what no rule matched
DefaultLabel_Other == "other"

\* the label of a reference no rule matches
DefaultLabel == ""

\* the normalized string map_ref tests
Normalize(x) == upper(strip(str(x)))

map_ref(x) ==
    LET s == Normalize(x) IN
    IF Contains(s, AUD_PULSES) THEN "AUD Pulses"
    ELSE IF Contains(s, INR_PULSES) THEN "INR Pulses"
    ELSE IF Contains(s, CAD_SP_CANOLA) THEN "OILSEEDS"
    ELSE IF Contains(s, CAD_DASH_CANADA) THEN "CAD CANADA"
    ELSE IF Contains(s, EUR_COTTON) THEN "COTTON"
    ELSE IF Contains(s, EUR_WHEAT) THEN "WHEAT"
    ELSE IF Rule7(s) THEN "pulses"
    ELSE IF Rule8(s) THEN "GENERAL"
    ELSE IF Contains(s, CAD_DASH_CANADA) THEN "CAD-CANADA"
    ELSE IF Contains(s, CAD_DASH_CANOLA) THEN "OILSEEDS"
    ELSE IF Rule10(s) THEN "payments"
    ELSE IF Rule11(s) THEN "RAHUL"
    ELSE IF Rule12(s) THEN "NITIN"
    ELSE IF Rule13(s) THEN "payments"
    ELSE IF Rule14(s) THEN "NITIN"
    ELSE IF Contains(s, OILSEEDS) THEN "oilseeds"
    ELSE IF Contains(s, WHEAT) THEN "Eur Wheat"
    ELSE DefaultLabel

----------------------------------------------------------------------------
(* The pivot: df.pivot_table(index=["ref","Currency"], values="Amount",    *)
(* aggfunc="sum", margins=True, margins_name="Grand Total", fill_value=0). *)
(* The pivot is the set of its rows; the order pandas shows them in is not *)
(* modelled.  Currency cells are strings.                                  *)

\* pd.to_numeric(a, errors="coerce"): what is no number becomes NaN
to_numeric(a) == IF a.kind = "num" THEN a ELSE [kind |-> "NaN"]

\* fillna(0)
fillna0(a) == IF a.kind = "NaN" THEN Num(0) ELSE a

\* df["Amount"] = pd.to_numeric(df["Amount"], errors="coerce").fillna(0)
CoerceAmount(frame) ==
    [i \in 1..Len(frame) |->
        [frame[i] EXCEPT !["Amount"] = fillna0(to_numeric(frame[i]["Amount"]))]]

\* mutant of aggfunc: the rows are counted, not summed
aggfunc_Count(a) == Len(a)

RECURSIVE aggfunc(_)
\* aggfunc="sum", over the amounts of a group in row order
aggfunc(a) == IF a = << >> THEN 0 ELSE Head(a) + aggfunc(Tail(a))

margins_name == "Grand Total"

\* the pivot of a frame whose Amount is numeric, with the ref column r
pivot_table(frame, r) ==
    LET n == Len(frame)
        idx == [i \in 1..n |-> i]
        key(i) == <<r[i], frame[i]["Currency"]>>
        keys == {key(i) : i \in 1..n}
        group(k) == LET member(i) == key(i) = k IN SelectSeq(idx, member)
        amounts(g) == [j \in 1..Len(g) |-> frame[g[j]]["Amount"].val]
        agged == {[ref |-> k[1], Currency |-> k[2],
                   Amount |-> aggfunc(amounts(group(k)))] : k \in keys}
        margin == [ref |-> margins_name, Currency |-> "",
                   Amount |-> aggfunc(amounts(idx))]
    IN agged \cup {margin}

\* the placeholder of to_excel_bytes_with_pivot: a pivot with no rows
EmptyPivot == {}

\* the bytes of a buffer no engine wrote to
NoBytes == [written |-> FALSE]

\* the bytes of a workbook with the two sheets
Workbook(processed, pv) ==
    [written |-> TRUE, Processed |-> processed, Pivot |-> pv]

Engines == {"openpyxl", "xlsxwriter"}

----------------------------------------------------------------------------
(* The frames the runs start from.                                         *)

AllColumns == {"Reference", "Currency", "Amount"}

Row(cols, r, c, a) ==
    [k \in cols |-> CASE k = "Reference" -> r
                      [] k = "Currency" -> c
                      [] k = "Amount" -> a]

\* fragments a Reference of the classifier runs is made of
Tokens ==
    { <<"A","U","D","_">>, <<"i","n","r","_">>,
      <<"P","u","l","s","e","s">>, PAYMENT,
      <<"s","g","d">>, <<"S","g","d","_","G","e","n","e","r","a","l">>,
      CAD, <<"-","C","A","N","A","D","A">>, <<" ","c","a","n","o","l","a">>,
      <<"E","U","R">>, <<" ","W","h","e","a","t">>, <<" ","C","O","T","T","O","N">>,
      OILSEEDS, <<"R">>, <<"b">>, NJ, <<"7">>, <<" ","\t">> }

RECURSIVE Flatten(_)
Flatten(ts) == IF ts = << >> THEN << >> ELSE Head(ts) \o Flatten(Tail(ts))

ClassifierReferences ==
    {Str(Flatten(ts)) : ts \in UNION {[1..n -> Tokens] : n \in 0..MaxTokens}}
        \cup {NoneCell, NaNCell}

PivotReferences ==
    {Str(<<"P","u","l","s","e","s">>), Str(<<"c","a","d","-","C","A","N","A","D","A">>)}

Currencies == {"USD", "EUR"}

AmountCells == {Num(25), Num(50), Num(100), TextCell}

InitRest ==
    /\ ref = << >>
    /\ pivot = EmptyPivot
    /\ warning = FALSE
    /\ excel = NoBytes
    /\ pc = "step4"

\* one row with every column, the Reference drawn from the fragments
InitClassify ==
    /\ columns = AllColumns
    /\ \E x \in ClassifierReferences :
            df = <<Row(AllColumns, x, "USD", Num(100))>>

\* one row of a sheet that lacks some of the columns
InitColumns ==
    /\ columns \in (SUBSET AllColumns) \ {AllColumns}
    /\ \E x \in {Str(PULSES), Str(<<"b","7">>)} :
            df = <<Row(columns, x, "USD", TextCell)>>

Init == InitRest /\ (InitClassify \/ InitColumns)

\* up to MaxRows rows with every column
InitPivot ==
    /\ InitRest
    /\ columns = AllColumns
    /\ \E n \in 1..MaxRows :
            df \in [1..n -> {Row(AllColumns, r, c, a) :
                                r \in PivotReferences, c \in Currencies,
                                a \in AmountCells}]

----------------------------------------------------------------------------
(* Steps 4 to 7 of main.                                                   *)

\* STEP 4: the ref column
Step4 ==
    /\ pc = "step4"
    /\ ref' = IF "Reference" \in columns
              THEN [i \in 1..Len(df) |-> map_ref(df[i]["Reference"])]
              ELSE [i \in 1..Len(df) |-> ""]
    /\ pc' = "step6"
    /\ UNCHANGED <<df, columns, pivot, warning, excel>>

\* STEP 6: the pivot shown in the app, or the warning
Step6 ==
    /\ pc = "step6"
    /\ IF {"Currency", "Amount"} \subseteq columns
       THEN /\ df' = CoerceAmount(df)
            /\ pivot' = pivot_table(df', ref)
            /\ warning' = FALSE
       ELSE /\ warning' = TRUE
            /\ UNCHANGED <<df, pivot>>
    /\ pc' = "step7"
    /\ UNCHANGED <<columns, ref, excel>>

\* the frame with its ref column, as the Processed sheet holds it
Processed(frame, r) == [i \in 1..Len(frame) |-> [row |-> frame[i], ref |-> r[i]]]

\* to_excel_bytes_with_pivot(df), with the engines that are installed
to_excel_bytes_with_pivot(frame, r, cols, installed) ==
    LET numeric == IF {"Currency", "Amount"} \subseteq cols
                   THEN CoerceAmount(frame) ELSE frame
        pv == IF {"Currency", "Amount"} \subseteq cols
              THEN pivot_table(numeric, r) ELSE EmptyPivot
    IN IF installed = {} THEN NoBytes ELSE Workbook(Processed(numeric, r), pv)

\* STEP 7: the download
Step7 ==
    /\ pc = "step7"
    /\ \E installed \in SUBSET Engines :
            excel' = to_excel_bytes_with_pivot(df, ref, columns, installed)
    /\ df' = IF {"Currency", "Amount"} \subseteq columns THEN CoerceAmount(df) ELSE df
    /\ pc' = "done"
    /\ UNCHANGED <<columns, ref, pivot, warning>>

Next == Step4 \/ Step6 \/ Step7

Spec == Init /\ [][Next]_vars

SpecPivot == InitPivot /\ [][Next]_vars

----------------------------------------------------------------------------
(* What the claims speak of, stated apart from the code's own normalizer.  *)

\* the rule-2 literal of the specification's table
SGD_GENERAL == SGD \o <<"_","G","E","N","E","R","A","L">>

RowIds == 1..Len(df)

\* row i has been through step 4 with a Reference column to classify
Classified(i) == pc # "step4" /\ "Reference" \in columns /\ i \in RowIds

\* the reference string of row i, as str() gives it
Text(i) == str(df[i]["Reference"])

\* the text between the first and the last character that is no whitespace
Trimmed(t) ==
    LET inked == {i \in 1..Len(t) : t[i] \notin Whitespace}
    IN IF inked = {} THEN << >>
       ELSE SubSeq(t, CHOOSE i \in inked : \A j \in inked : i <= j,
                      CHOOSE i \in inked : \A j \in inked : i >= j)

\* the normalized form of row i's reference: trimmed, then upper-cased
NormalForm(i) ==
    LET tr == Trimmed(Text(i)) IN [k \in 1..Len(tr) |-> UpperChar(tr[k])]

Has(nf, w) == Contains(nf, w)

AllDigits(nf) ==
    nf # << >> /\ \A k \in 1..Len(nf) : nf[k] \in Digits

PulsesWithoutPayment(nf) == Has(nf, PULSES) /\ ~Has(nf, PAYMENT)

\* one of the six commodity phrases the code tests before PULSES
HasCommodityPhrase(nf) ==
    \/ Has(nf, AUD_PULSES) \/ Has(nf, INR_PULSES) \/ Has(nf, CAD_SP_CANOLA)
    \/ Has(nf, CAD_DASH_CANADA) \/ Has(nf, EUR_COTTON) \/ Has(nf, EUR_WHEAT)

\* the reference is written otherwise than its normalized form
NotNormal(i) == Text(i) # NormalForm(i)

----------------------------------------------------------------------------
\* C1 (as stated): every reference whose normalized form contains PULSES and
\* not PAYMENT is labelled "pulses", whatever else it contains.
C1_AsStated ==
    \A i \in RowIds : Classified(i) => LET nf == NormalForm(i) IN
        (PulsesWithoutPayment(nf)) => ref[i] = "pulses"

\* C1 (amended): every reference whose normalized form contains PULSES and
\* not PAYMENT, and none of the six commodity phrases AUD_PULSES, INR_PULSES,
\* CAD CANOLA, CAD-CANADA, EUR COTTON, EUR WHEAT, is labelled "pulses",
\* whatever its case and surrounding whitespace.
C1_PulsesWithoutPayment ==
    \A i \in RowIds : Classified(i) => LET nf == NormalForm(i) IN
        (PulsesWithoutPayment(nf) /\ ~HasCommodityPhrase(nf))
            => ref[i] = "pulses"

\* a reference in mixed case and with whitespace around it, labelled "pulses"
C1_Witness ==
    \E i \in RowIds : Classified(i) /\ LET nf == NormalForm(i) IN
        /\ PulsesWithoutPayment(nf) /\ ~HasCommodityPhrase(nf)
        /\ Trimmed(Text(i)) # nf /\ Len(Trimmed(Text(i))) < Len(Text(i))
        /\ ref[i] = "pulses"

\* C2: every reference whose normalized form contains CAD and matches no
\* rule of higher priority (of the specification's table or of the code) is
\* labelled "CAD".
C2_AsStated ==
    \A i \in RowIds : Classified(i) => LET nf == NormalForm(i) IN
        (/\ Has(nf, CAD)
         /\ ~PulsesWithoutPayment(nf) /\ ~Has(nf, SGD_GENERAL)
         /\ ~HasCommodityPhrase(nf) /\ ~Has(nf, SGD) /\ ~Has(nf, CAD_DASH_CANOLA))
            => ref[i] = "CAD"

\* C3: every reference whose normalized form contains RB, wherever in the
\* string, and matches no rule above the RB rule is given the RB label (in
\* the specification's casing or the code's), also when it contains PAYMENT.
C3_AsStated ==
    \A i \in RowIds : Classified(i) => LET nf == NormalForm(i) IN
        (/\ Has(nf, RB)
         /\ ~PulsesWithoutPayment(nf) /\ ~Has(nf, SGD_GENERAL) /\ ~Has(nf, CAD)
         /\ ~AllDigits(nf)
         /\ ~HasCommodityPhrase(nf) /\ ~Has(nf, SGD))
            => ref[i] \in {"Rahul", "RAHUL"}

\* C4 (as stated): every reference whose normalized form contains SGD_GENERAL
\* and does not satisfy the PULSES-without-PAYMENT rule is labelled
\* "SGD General".
C4_AsStated ==
    \A i \in RowIds : Classified(i) => LET nf == NormalForm(i) IN
        (Has(nf, SGD_GENERAL) /\ ~PulsesWithoutPayment(nf))
            => ref[i] = "SGD General"

\* C4 (amended): every reference whose normalized form contains SGD_GENERAL,
\* does not satisfy the PULSES-without-PAYMENT rule and contains none of the
\* six commodity phrases is labelled "GENERAL", whatever later rule it also
\* satisfies.
C4_SgdGeneral ==
    \A i \in RowIds : Classified(i) => LET nf == NormalForm(i) IN
        (/\ Has(nf, SGD_GENERAL) /\ ~PulsesWithoutPayment(nf)
         /\ ~HasCommodityPhrase(nf))
            => ref[i] = "GENERAL"

\* a reference with SGD_GENERAL that a later rule (B prefix, CAD, PAYMENT,
\* NJ, OILSEEDS) would also take, labelled "GENERAL"
C4_Witness ==
    \E i \in RowIds : Classified(i) /\ LET nf == NormalForm(i) IN
        /\ Has(nf, SGD_GENERAL) /\ ~PulsesWithoutPayment(nf)
        /\ ~HasCommodityPhrase(nf)
        /\ \/ startswith(nf, B) \/ Has(nf, CAD) \/ Has(nf, PAYMENT)
           \/ Has(nf, NJ) \/ Has(nf, OILSEEDS)
        /\ ref[i] = "GENERAL"

EarlierThanDigits(s) ==
    \/ Contains(s, AUD_PULSES) \/ Contains(s, INR_PULSES)
    \/ Contains(s, CAD_SP_CANOLA) \/ Contains(s, CAD_DASH_CANADA)
    \/ Contains(s, EUR_COTTON) \/ Contains(s, EUR_WHEAT)
    \/ Rule7(s) \/ Rule8(s) \/ Contains(s, CAD_DASH_CANOLA)

\* C6: every non-empty reference whose normalized form is all decimal digits
\* is labelled "payments": no rule before the all-digits rule holds of it,
\* and the all-digits rule does.
C6_AllDigits ==
    \A i \in RowIds : Classified(i) => LET nf == NormalForm(i) IN
        (AllDigits(nf))
            => /\ ref[i] = "payments"
               /\ ~EarlierThanDigits(Normalize(df[i]["Reference"]))
               /\ Rule10(Normalize(df[i]["Reference"]))

\* a digit string with whitespace around it, labelled "payments"
C6_Witness ==
    \E i \in RowIds : Classified(i) /\ LET nf == NormalForm(i) IN
        /\ AllDigits(nf) /\ NotNormal(i)
        /\ ref[i] = "payments"

\* C7: no reference whose normalized form contains both PULSES and PAYMENT
\* is labelled "pulses".
C7_PulsesAndPayment ==
    \A i \in RowIds : Classified(i) => LET nf == NormalForm(i) IN
        (Has(nf, PULSES) /\ Has(nf, PAYMENT)) => ref[i] # "pulses"

\* a reference with PULSES and PAYMENT that fell through to "payments"
C7_Witness ==
    \E i \in RowIds : Classified(i) /\ LET nf == NormalForm(i) IN
        /\ Has(nf, PULSES) /\ Has(nf, PAYMENT)
        /\ ref[i] = "payments"

\* the reference of row i is the empty string or whitespace only
Blank(i) ==
    /\ df[i]["Reference"].kind = "str"
    /\ \A k \in 1..Len(Text(i)) : Text(i)[k] \in Whitespace

\* C8: the label is the empty string for the empty reference, for every
\* whitespace-only reference and for None; and for every row of a frame that
\* has no Reference column.
C8_BlankAndMissing ==
    pc # "step4" =>
        /\ Len(ref) = Len(df)
        /\ \A i \in RowIds :
              /\ "Reference" \notin columns => ref[i] = ""
              /\ (Classified(i) /\ (Blank(i) \/ df[i]["Reference"] = NoneCell))
                    => ref[i] = ""

\* a whitespace-only reference that is not empty, labelled ""
C8_Witness ==
    \E i \in RowIds :
        /\ Classified(i) /\ Blank(i) /\ Len(Text(i)) > 1
        /\ ref[i] = ""

----------------------------------------------------------------------------
(* The aggregation, stated over the rows and not over their order.         *)

\* the pivot has been built from a frame with Currency and Amount
PivotBuilt == pc \in {"step7", "done"} /\ {"Currency", "Amount"} \subseteq columns

\* the aggregation key of row i
KeyOf(i) == <<ref[i], df[i]["Currency"]>>

Keys == {KeyOf(i) : i \in RowIds}

\* the Amount of row i, what is no number counting as zero
AmountOf(i) == IF df[i]["Amount"].kind = "num" THEN df[i]["Amount"].val ELSE 0

RECURSIVE SumOver(_)
\* the sum of Amount over a set of rows
SumOver(S) ==
    IF S = {} THEN 0
    ELSE LET i == CHOOSE j \in S : TRUE IN AmountOf(i) + SumOver(S \ {i})

\* two rows of a sequence exchanged
Swap(s, i, j) == [s EXCEPT ![i] = s[j], ![j] = s[i]]

\* P holds one entry per key with the key's sum, and one grand total
KeySumsAndGrandTotal(P) ==
    /\ \A k \in Keys :
          \E e \in P :
              /\ {x \in P : x.ref = k[1] /\ x.Currency = k[2]} = {e}
              /\ e.Amount = SumOver({i \in RowIds : KeyOf(i) = k})
    /\ \E g \in P :
          /\ {x \in P : x.ref = "Grand Total"} = {g}
          /\ g.Amount = SumOver(RowIds)

\* C9: the aggregation holds, for each distinct (Category, Currency) key,
\* exactly one entry whose value is the sum of Amount over the rows with that
\* key, and one grand-total entry equal to the sum of Amount over all rows;
\* exchanging rows of the input changes nothing.
C9_SumsPerKey ==
    PivotBuilt =>
        /\ KeySumsAndGrandTotal(pivot)
        /\ \A i, j \in RowIds :
              i < j => pivot_table(Swap(df, i, j), Swap(ref, i, j)) = pivot
        /\ (pc = "done" /\ excel.written) => KeySumsAndGrandTotal(excel.Pivot)

\* three rows, two of them sharing a key: 100 + 50 = 150, 25, in all 175
C9_Witness ==
    /\ pc = "done" /\ excel.written /\ Len(df) = 3
    /\ df[1]["Amount"] = Num(100) /\ df[2]["Amount"] = Num(50)
    /\ [ref |-> "pulses", Currency |-> "USD", Amount |-> 150] \in pivot
    /\ [ref |-> "CAD CANADA", Currency |-> "USD", Amount |-> 25] \in pivot
    /\ [ref |-> "Grand Total", Currency |-> "", Amount |-> 175] \in excel.Pivot

\* the entries of P for category c that are no (Category, Currency) sum
Subtotals(P, c) == {e \in P : e.ref = c /\ <<e.ref, e.Currency>> \notin Keys}

\* C10: besides the per-key sums and the grand total, the pivot holds exactly
\* one subtotal row for each Category present, whose value is the sum of
\* Amount over all currencies of that category.
C10_AsStated ==
    PivotBuilt =>
        \A c \in {ref[i] : i \in RowIds} :
            \E e \in pivot :
                /\ Subtotals(pivot, c) = {e}
                /\ e.Amount = SumOver({i \in RowIds : ref[i] = c})

============================================================================
